---------------------------- MODULE Spec2Model ----------------------------
(***************************************************************************)
(* Airline satisfaction dashboard (src/app.py): the load step that         *)
(* normalises the satisfaction labels, and the Dash callbacks toggle_play  *)
(* and render with the component properties they read and write.           *)
(*                                                                         *)
(* Strings whose characters matter (the raw satisfaction labels) are       *)
(* sequences of one-character strings; category values that are only       *)
(* compared for equality (airline, class, travel type, normalised label)   *)
(* are TLA+ strings.                                                       *)
(***************************************************************************)
EXTENDS Integers, Sequences, FiniteSets, TLC

VARIABLES
    phase,          \* "read": after pd.read_csv; "loaded": module body done, app serving
    df,             \* the data frame: a sequence of rows, index 1..Len(df)
    n,              \* tick.n_intervals
    slider_year,    \* year-slider.value
    airlines_sel,   \* airline-dd.value
    class_sel,      \* class-dd.value
    travel_sel,     \* travel-dd.value
    is_playing,     \* play-state.data
    tick_disabled,  \* tick.disabled
    pending,        \* an Input of render changed and render has not run on it yet
    rendered,       \* render has returned at least once
    last_selected,  \* history: the year of the user's last direct slider selection (0: none)
    chain,          \* history: the calls of render since the last tick or user event
    current_year,   \* render: the cursor year (current-year-label, figure titles)
    d,              \* render: index of the rows of df.loc[mask]
    total_records,  \* render: len(d)
    sat,            \* render: satisfied count
    diss,           \* render: dissatisfied count
    sat_pct,        \* render: satisfied percentage, as the exact fraction num/den
    d_year,         \* render: index of the rows of d with Year == current_year
    grp,            \* render: the per-airline table, sorted by Total descending
    year_trend,     \* render: the per-year table
    pie_counts,     \* render: value_counts of d_year
    pc,             \* data_fetch.py: the statement fetch_and_save_data is at ("idle": not run)
    exc,            \* data_fetch.py: the class of the exception raised ("": none)
    exc_at,         \* data_fetch.py: the statement that raised it
    attempts,       \* data_fetch.py: the calls of requests.get made
    response,       \* data_fetch.py: the HTTP response: status code and kind of body
    zip_file,       \* the file ontime_2024_01.zip: "absent" or the kind of its content
    bts_df,         \* data_fetch.py: the columns of bts_df
    bts_delays,     \* the file bts_delays.csv: "absent", "old", "real" or "simulated"
    satisfaction_csv \* the file satisfaction.csv: "absent", "kaggle" or "sample"

vars == <<phase, df, n, slider_year, airlines_sel, class_sel, travel_sel,
          is_playing, tick_disabled, pending, rendered, last_selected, chain,
          current_year, d, total_records, sat, diss, sat_pct, d_year, grp,
          year_trend, pie_counts,
          pc, exc, exc_at, attempts, response, zip_file, bts_df, bts_delays,
          satisfaction_csv>>

inputs == <<n, slider_year, airlines_sel, class_sel, travel_sel, is_playing>>

\* the state of the fetch script and of the files it writes
fetch_vars == <<pc, exc, exc_at, attempts, response, zip_file, bts_df, bts_delays,
                satisfaction_csv>>

\* the state of the dashboard
dash_vars == <<phase, df, n, slider_year, airlines_sel, class_sel, travel_sel,
               is_playing, tick_disabled, pending, rendered, last_selected, chain,
               current_year, d, total_records, sat, diss, sat_pct, d_year, grp,
               year_trend, pie_counts>>

outputs == <<current_year, d, total_records, sat, diss, sat_pct, d_year, grp,
             year_trend, pie_counts>>

-----------------------------------------------------------------------------
(* Bounds *)

\* most fragments concatenated into one raw label
MaxParts == 2

\* most rows of a data frame drawn for the aggregation checks
MaxRows == 3

\* ticks the interval delivers before the model stops counting
MaxTicks == 5

-----------------------------------------------------------------------------
(* Character strings *)

Max(a, b) == IF a >= b THEN a ELSE b

\* str.lower() on the characters the labels are built from
LowerChar(c) ==
    CASE c = "S" -> "s"
      [] c = "N" -> "n"
      [] c = "D" -> "d"
      [] c = "E" -> "e"
      [] c = "U" -> "u"
      [] c = "T" -> "t"
      [] c = "R" -> "r"
      [] c = "A" -> "a"
      [] c = "L" -> "l"
      [] OTHER -> c

Lower(s) == [i \in 1..Len(s) |-> LowerChar(s[i])]

IsSpace(c) == c = " "

RECURSIVE LStrip(_)
LStrip(s) == IF s # <<>> /\ IsSpace(Head(s)) THEN LStrip(Tail(s)) ELSE s

RECURSIVE RStrip(_)
RStrip(s) ==
    IF s # <<>> /\ IsSpace(s[Len(s)]) THEN RStrip(SubSeq(s, 1, Len(s) - 1)) ELSE s

\* str.strip()
Strip(s) == RStrip(LStrip(s))

\* t in s
Contains(s, t) ==
    \E i \in 0..(Len(s) - Len(t)) : SubSeq(s, i + 1, i + Len(t)) = t

TokSatisf == <<"s", "a", "t", "i", "s", "f">>

TokNeutral == <<"n", "e", "u", "t", "r", "a", "l">>

TokDiss == <<"d", "i", "s", "s">>

\* a cell of the satisfaction column: a string, or NaN for an empty cell
NaNCell == [isna |-> TRUE, str |-> <<>>]

StrCell(s) == [isna |-> FALSE, str |-> s]

Satisfied == "satisfied"

Dissatisfied == "neutral or dissatisfied"

Unknown == "unknown"

normalize_satisfaction(val) ==
    IF val.isna THEN Unknown
    ELSE LET s == Lower(Strip(val.str))
         IN  IF Contains(s, TokSatisf) /\ ~Contains(s, TokNeutral) /\ ~Contains(s, TokDiss)
             THEN Satisfied
             ELSE IF Contains(s, TokNeutral) \/ Contains(s, TokDiss)
                  THEN Dissatisfied
                  ELSE Dissatisfied


-----------------------------------------------------------------------------
(* The data frame *)

\* the missing-value marker of a category column (np.nan)
NaN == "NaN"

\* two names of the airline catalogue
Airlines == {"Air India", "IndiGo"}

LblSatisfied == StrCell(<<"s", "a", "t", "i", "s", "f", "i", "e", "d">>)

LblNeutralOrDissatisfied ==
    StrCell(TokNeutral \o <<" ", "o", "r", " ", "d", "i", "s">> \o TokSatisf \o <<"i", "e", "d">>)

RawRow(a, c, t, y, l) ==
    [Airline |-> a, Class |-> c, Travel |-> t, Year |-> y, satisfaction |-> l,
     satisfaction_norm |-> ""]

\* A sample of train.csv with the simulated Airline and Year columns: both
\* survey labels and an empty label cell, two airlines, three flight years,
\* and one passenger without Class and Type of Travel.
SampleRows ==
    << RawRow("Air India", "Business", "Business travel", 2006, LblSatisfied),
       RawRow("Air India", "Eco",      "Personal Travel", 2006, LblNeutralOrDissatisfied),
       RawRow("Air India", "Eco",      "Business travel", 2007, LblSatisfied),
       RawRow("Air India", "Business", "Personal Travel", 2008, LblNeutralOrDissatisfied),
       RawRow("IndiGo",    "Eco",      "Personal Travel", 2006, LblSatisfied),
       RawRow("IndiGo",    "Business", "Business travel", 2007, LblNeutralOrDissatisfied),
       RawRow("IndiGo",    "Business", "Business travel", 2007, NaNCell),
       RawRow("IndiGo",    NaN,        NaN,               2008, LblSatisfied) >>

\* df["satisfaction_norm"] = df["satisfaction"].apply(normalize_satisfaction)
ApplyNormalize(frame) ==
    [i \in 1..Len(frame) |->
        [frame[i] EXCEPT !.satisfaction_norm = normalize_satisfaction(frame[i].satisfaction)]]

\* the rows of table at the positions in keep, in table order, re-indexed from 1
RECURSIVE TakeRows(_, _, _)
TakeRows(table, keep, i) ==
    IF i > Len(table) THEN <<>>
    ELSE (IF i \in keep THEN <<table[i]>> ELSE <<>>) \o TakeRows(table, keep, i + 1)

\* the tables of 1..MaxRows rows of the sample
SubTables ==
    { TakeRows(SampleRows, keep, 1) :
        keep \in { k \in SUBSET (1..Len(SampleRows)) :
                     Cardinality(k) >= 1 /\ Cardinality(k) <= MaxRows } }

SetMin(S) == CHOOSE x \in S : \A y \in S : x <= y

SetMax(S) == CHOOSE x \in S : \A y \in S : x >= y

YearsOf(frame) == { frame[i].Year : i \in 1..Len(frame) }

year_min == SetMin(YearsOf(df))

year_max == SetMax(YearsOf(df))

\* the options of the three dropdowns: the values present, missing values dropped
AirlineOptions(frame) == { frame[i].Airline : i \in 1..Len(frame) }

ClassOptions(frame) == { frame[i].Class : i \in 1..Len(frame) } \ {NaN}

TravelOptions(frame) == { frame[i].Travel : i \in 1..Len(frame) } \ {NaN}

-----------------------------------------------------------------------------
(* render: the cursor year *)

\* a span one too wide
YearSpan_one_more(lo, hi) == hi - lo + 2

\* span = (year_max - year_min + 1)
YearSpan(lo, hi) == hi - lo + 1

\* a sweep that stops at the last year instead of wrapping
PlayYear_no_wrap(lo, hi, k) == IF lo + k <= hi THEN lo + k ELSE hi

\* the year shown while playing, after k ticks: year_min + (n % span)
PlayYear(lo, hi, k) == lo + (k % YearSpan(lo, hi))

\* a cursor that, while playing, steps on from the slider value
CursorYear_advances_slider(lo, hi, k, slider, playing) ==
    IF playing THEN lo + ((slider - lo + 1) % YearSpan(lo, hi)) ELSE slider

\* a cursor that, while playing, counts the ticks from the slider value
CursorYear_offset_from_slider(lo, hi, k, slider, playing) ==
    IF playing THEN lo + ((slider - lo + k) % YearSpan(lo, hi)) ELSE slider

\* a cursor that follows the tick count in the paused state too
CursorYear_ignores_pause(lo, hi, k, slider, playing) == PlayYear(lo, hi, k)

\* current_year (and slider_val, which render sets to the same value)
CursorYear(lo, hi, k, slider, playing) ==
    IF playing THEN PlayYear(lo, hi, k) ELSE slider

-----------------------------------------------------------------------------
(* render: the row filter *)

\* Series.isin(values) on one cell
Isin(v, values) == v \in values

\* a filter that applies the class selection even when it is empty
Mask_class_always_filtered(r, asel, csel, tsel, cy) ==
    /\ Isin(r.Airline, asel)
    /\ Isin(r.Class, csel)
    /\ (IF tsel # {} THEN Isin(r.Travel, tsel) ELSE TRUE)
    /\ r.Year <= cy

\* a filter that keeps the cursor year only
Mask_exact_year(r, asel, csel, tsel, cy) ==
    /\ Isin(r.Airline, asel)
    /\ (IF csel # {} THEN Isin(r.Class, csel) ELSE TRUE)
    /\ (IF tsel # {} THEN Isin(r.Travel, tsel) ELSE TRUE)
    /\ r.Year = cy

Mask(r, asel, csel, tsel, cy) ==
    /\ Isin(r.Airline, asel)
    /\ (IF csel # {} THEN Isin(r.Class, csel) ELSE TRUE)
    /\ (IF tsel # {} THEN Isin(r.Travel, tsel) ELSE TRUE)
    /\ r.Year <= cy

\* the index of frame.loc[mask]: the row numbers kept, ascending
RECURSIVE LocIndex(_, _, _, _, _, _)
LocIndex(frame, asel, csel, tsel, cy, i) ==
    IF i > Len(frame) THEN <<>>
    ELSE (IF Mask(frame[i], asel, csel, tsel, cy) THEN <<i>> ELSE <<>>)
         \o LocIndex(frame, asel, csel, tsel, cy, i + 1)

Filtered(asel, csel, tsel, cy) == LocIndex(df, asel, csel, tsel, cy, 1)

Range(idx) == { idx[k] : k \in 1..Len(idx) }

-----------------------------------------------------------------------------
(* render: the aggregates *)

\* Series.value_counts(): a count for each value that occurs
ValueCounts(idx) ==
    [l \in { df[i].satisfaction_norm : i \in Range(idx) } |->
        Cardinality({ i \in Range(idx) : df[i].satisfaction_norm = l })]

\* Series.get(key, default)
Get(f, key, default) == IF key \in DOMAIN f THEN f[key] ELSE default

\* the percentage without the max(1, ...) guard
SatPct_no_guard(s, u) == [num |-> s * 100, den |-> s + u]

\* sat / max(1, sat + diss) * 100, kept as the fraction num / den
SatPct(s, u) == [num |-> s * 100, den |-> Max(1, s + u)]

\* a snapshot that takes the whole history
DYear_cumulative(idx, cy) == idx

\* d[d["Year"] == current_year]; an empty slice is replaced by d.tail(0)
RECURSIVE DYear(_, _)
DYear(idx, cy) ==
    IF idx = <<>> THEN <<>>
    ELSE (IF df[Head(idx)].Year = cy THEN <<Head(idx)>> ELSE <<>>) \o DYear(Tail(idx), cy)

\* groupby(["Airline", "satisfaction_norm"]).size().unstack(fill_value=0), the
\* two label columns added when absent, and Total: one row per airline of idx
GrpRows(idx) ==
    LET cols == { df[i].satisfaction_norm : i \in Range(idx) } \cup {Satisfied, Dissatisfied}
        cnt(a, l) == Cardinality({ i \in Range(idx) :
                                     df[i].Airline = a /\ df[i].satisfaction_norm = l })
    IN  { [Airline |-> a,
           counts  |-> [l \in cols |-> cnt(a, l)],
           Total   |-> cnt(a, Satisfied) + cnt(a, Dissatisfied)] :
          a \in { df[i].Airline : i \in Range(idx) } }

\* sort_values("Total", ascending=False): every order of the rows with Total
\* descending (the order of equal totals is the sort routine's)
SortedByTotal(rows) ==
    { s \in [1..Cardinality(rows) -> rows] :
        /\ \A i, j \in DOMAIN s : i # j => s[i] # s[j]
        /\ \A i, j \in DOMAIN s : i < j => s[i].Total >= s[j].Total }

\* the per-year table without the placeholder row
YearTrend_no_placeholder(idx, cy) ==
    [y \in { df[i].Year : i \in Range(idx) } |->
        [l \in { df[i].satisfaction_norm : i \in Range(idx) } |->
            Cardinality({ i \in Range(idx) :
                            df[i].Year = y /\ df[i].satisfaction_norm = l })]]

\* groupby("Year")["satisfaction_norm"].value_counts().unstack(fill_value=0):
\* one row per year of idx, one column per label of idx; the placeholder row
\* when the frame is empty
YearTrend(idx, cy) ==
    IF idx = <<>>
    THEN (cy :> (Satisfied :> 0 @@ Dissatisfied :> 0))
    ELSE [y \in { df[i].Year : i \in Range(idx) } |->
            [l \in { df[i].satisfaction_norm : i \in Range(idx) } |->
                Cardinality({ i \in Range(idx) :
                                df[i].Year = y /\ df[i].satisfaction_norm = l })]]

-----------------------------------------------------------------------------
(* The callbacks *)

(***************************************************************************)
(* A change of one of render's Input properties (a tick, a slider          *)
(* selection, a dropdown change, the play-state written by toggle_play)    *)
(* sets pending; Render consumes it.  The user acts on what is displayed:  *)
(* user events wait for a pending render, while the interval keeps         *)
(* counting until render has disabled it.  set_speed only copies the       *)
(* speed dropdown to tick.interval, and the delay means and the figures    *)
(* are built from d and d_year without feeding back; they are left out.    *)
(***************************************************************************)

\* render(n, slider_year, airlines_sel, class_sel, travel_sel, is_playing)
Render ==
    /\ phase = "loaded"
    /\ UNCHANGED fetch_vars
    /\ pending
    /\ LET cy  == CursorYear(year_min, year_max, n, slider_year, is_playing)
           idx == Filtered(airlines_sel, class_sel, travel_sel, cy)
           sc  == ValueCounts(idx)
           s   == Get(sc, Satisfied, 0)
           u   == Get(sc, Dissatisfied, 0)
           dy  == DYear(idx, cy)
       IN  /\ current_year' = cy
           /\ slider_year' = cy
           /\ d' = idx
           /\ total_records' = Len(idx)
           /\ sat' = s
           /\ diss' = u
           /\ sat_pct' = SatPct(s, u)
           /\ d_year' = dy
           /\ grp' \in SortedByTotal(GrpRows(idx))
           /\ year_trend' = YearTrend(idx, cy)
           /\ pie_counts' = ValueCounts(dy)
    /\ tick_disabled' = ~is_playing
    \* render has consumed the change; whether the renderer calls it once more
    \* for the slider value it has just written is the framework's choice
    /\ pending' \in (IF CursorYear(year_min, year_max, n, slider_year, is_playing) # slider_year
                     THEN BOOLEAN ELSE {FALSE})
    /\ rendered' = TRUE
    /\ chain' = chain + 1
    /\ UNCHANGED <<phase, df, n, airlines_sel, class_sel, travel_sel, is_playing,
                   last_selected>>

\* the module body, lines 15-61, and the layout's initial property values
Load ==
    /\ phase = "read"
    /\ UNCHANGED fetch_vars
    /\ phase' = "loaded"
    /\ df' = ApplyNormalize(df)
    /\ n' = 0
    /\ slider_year' = year_min
    /\ airlines_sel' = AirlineOptions(df)
    /\ class_sel' = ClassOptions(df)
    /\ travel_sel' = TravelOptions(df)
    /\ is_playing' = TRUE
    /\ tick_disabled' = FALSE
    /\ pending' = TRUE
    /\ chain' = 0
    /\ UNCHANGED <<rendered, last_selected, outputs>>

\* dcc.Interval: one more interval has elapsed
Tick ==
    /\ phase = "loaded"
    /\ UNCHANGED fetch_vars
    /\ ~tick_disabled
    /\ n < MaxTicks
    /\ n' = n + 1
    /\ pending' = TRUE
    /\ chain' = 0
    /\ UNCHANGED <<phase, df, slider_year, airlines_sel, class_sel, travel_sel,
                   is_playing, tick_disabled, rendered, last_selected, outputs>>

\* the user drags the year slider to y
SelectYear(y) ==
    /\ phase = "loaded"
    /\ UNCHANGED fetch_vars
    /\ ~pending
    /\ y # slider_year
    /\ slider_year' = y
    /\ last_selected' = y
    /\ pending' = TRUE
    /\ chain' = 0
    /\ UNCHANGED <<phase, df, n, airlines_sel, class_sel, travel_sel, is_playing,
                   tick_disabled, rendered, outputs>>

\* the user changes the selection of one of the three dropdowns
SetAirlines(sel) ==
    /\ phase = "loaded"
    /\ UNCHANGED fetch_vars
    /\ ~pending
    /\ sel # airlines_sel
    /\ airlines_sel' = sel
    /\ pending' = TRUE
    /\ chain' = 0
    /\ UNCHANGED <<phase, df, n, slider_year, class_sel, travel_sel, is_playing,
                   tick_disabled, rendered, last_selected, outputs>>

SetClass(sel) ==
    /\ phase = "loaded"
    /\ UNCHANGED fetch_vars
    /\ ~pending
    /\ sel # class_sel
    /\ class_sel' = sel
    /\ pending' = TRUE
    /\ chain' = 0
    /\ UNCHANGED <<phase, df, n, slider_year, airlines_sel, travel_sel, is_playing,
                   tick_disabled, rendered, last_selected, outputs>>

SetTravel(sel) ==
    /\ phase = "loaded"
    /\ UNCHANGED fetch_vars
    /\ ~pending
    /\ sel # travel_sel
    /\ travel_sel' = sel
    /\ pending' = TRUE
    /\ chain' = 0
    /\ UNCHANGED <<phase, df, n, slider_year, airlines_sel, class_sel, is_playing,
                   tick_disabled, rendered, last_selected, outputs>>

\* a handler that pauses whatever the state is
toggle_play_return_always_paused(playing) == FALSE

\* return not is_playing
toggle_play_return(playing) == ~playing

\* toggle_play(n_clicks, is_playing): a click on play-btn
toggle_play ==
    /\ phase = "loaded"
    /\ UNCHANGED fetch_vars
    /\ ~pending
    /\ is_playing' = toggle_play_return(is_playing)
    /\ pending' = TRUE
    /\ chain' = 0
    /\ UNCHANGED <<phase, df, n, slider_year, airlines_sel, class_sel, travel_sel,
                   tick_disabled, rendered, last_selected, outputs>>

-----------------------------------------------------------------------------
(* Specifications *)

\* the fetch script has not been started
FetchIdle ==
    /\ pc = "idle"
    /\ exc = ""
    /\ exc_at = ""
    /\ attempts = 0
    /\ response = [status |-> 0, body |-> "none"]
    /\ zip_file = "absent"
    /\ bts_df = {}
    /\ bts_delays = "absent"
    /\ satisfaction_csv = "absent"

\* the property and output values before anything has been computed
Blank ==
    /\ n = 0
    /\ slider_year = 0
    /\ airlines_sel = {}
    /\ class_sel = {}
    /\ travel_sel = {}
    /\ is_playing = TRUE
    /\ tick_disabled = FALSE
    /\ pending = FALSE
    /\ rendered = FALSE
    /\ last_selected = 0
    /\ chain = 0
    /\ current_year = 0
    /\ d = <<>>
    /\ total_records = 0
    /\ sat = 0
    /\ diss = 0
    /\ sat_pct = SatPct(0, 0)
    /\ d_year = <<>>
    /\ grp = <<>>
    /\ year_trend = <<>>
    /\ pie_counts = <<>>

\* The dashboard on the sample table.
Init ==
    /\ phase = "read"
    /\ df = SampleRows
    /\ Blank
    /\ FetchIdle

Next ==
    \/ Load
    \/ Render
    \/ Tick
    \/ \E y \in year_min..year_max : SelectYear(y)
    \/ \E sel \in SUBSET AirlineOptions(df) : SetAirlines(sel)
    \/ \E sel \in SUBSET ClassOptions(df) : SetClass(sel)
    \/ \E sel \in SUBSET TravelOptions(df) : SetTravel(sel)
    \/ toggle_play

Spec == Init /\ [][Next]_vars

\* The load step on one-row tables whose label cell is empty or is built from
\* up to MaxParts fragments.
Fragments ==
    { TokSatisf, <<"S", "A", "T", "I", "S", "F">>, TokNeutral,
      <<"N", "e", "u", "t", "r", "a", "l">>, <<"d", "i", "s">>, <<"D", "I", "S", "S">>,
      <<"i", "e", "d">>, <<"u", "n">>, <<"o", "r">>, <<" ">> }

RECURSIVE Concats(_)
Concats(k) ==
    IF k = 0 THEN { <<>> }
    ELSE Concats(k - 1) \cup { s \o f : s \in Concats(k - 1), f \in Fragments }

RawLabels == { NaNCell } \cup { StrCell(s) : s \in Concats(MaxParts) }

InitNorm ==
    /\ phase = "read"
    /\ df \in { << RawRow("Air India", "Business", "Business travel", 2006, l) >> :
                l \in RawLabels }
    /\ Blank
    /\ FetchIdle

SpecNorm == InitNorm /\ [][Load]_vars

\* render as a function of its arguments: every table of up to MaxRows sample
\* rows, every selection of the dropdowns' options, playing at any tick count
\* and paused at any slider year.
InitAgg ==
    /\ phase = "loaded"
    /\ df \in { ApplyNormalize(t) : t \in SubTables }
    /\ airlines_sel \in SUBSET AirlineOptions(df)
    /\ class_sel \in SUBSET ClassOptions(df)
    /\ travel_sel \in SUBSET TravelOptions(df)
    /\ \/ is_playing = TRUE /\ n \in 0..MaxTicks /\ slider_year = year_min
       \/ is_playing = FALSE /\ n = 0 /\ slider_year \in year_min..year_max
    /\ tick_disabled = ~is_playing
    /\ pending = TRUE
    /\ rendered = FALSE
    /\ last_selected = 0
    /\ chain = 0
    /\ current_year = 0
    /\ d = <<>>
    /\ total_records = 0
    /\ sat = 0
    /\ diss = 0
    /\ sat_pct = SatPct(0, 0)
    /\ d_year = <<>>
    /\ grp = <<>>
    /\ year_trend = <<>>
    /\ pie_counts = <<>>
    /\ FetchIdle

SpecAgg == InitAgg /\ [][Render]_vars

-----------------------------------------------------------------------------
(* data_fetch.py: fetch_and_save_data *)

(***************************************************************************)
(* One action per statement that can fail.  What the network, the server   *)
(* and the file system do is chosen freely: the request fails or answers   *)
(* with some status and body, and every write succeeds or raises OSError.  *)
(***************************************************************************)

\* the statements inside the try block
TrySteps == {"get", "status", "write_zip", "open_zip", "namelist", "read_csv", "to_csv"}

\* the exception classes the statements raise; all derive from Exception
ExceptionClasses ==
    {"ConnectionError", "HTTPError", "OSError", "BadZipFile", "IndexError", "ParserError"}

\* a handler for the errors of the request only
Caught_request_errors_only(e) == e \in {"ConnectionError", "HTTPError"}

\* except Exception as e
Caught(e) == e \in ExceptionClasses

\* statement at raises e inside the try block
Raise(at, e) ==
    /\ exc' = e
    /\ exc_at' = at
    /\ pc' = (IF Caught(e) THEN "except" ELSE "crashed")

\* statement at raises e outside the try block: nothing catches it
RaiseUncaught(at, e) ==
    /\ exc' = e
    /\ exc_at' = at
    /\ pc' = "crashed"

StatusCodes == {200, 404, 503}

\* what the server may send: an archive holding a CSV, an archive with no
\* member, bytes that are no archive, an archive whose first member is no CSV
Bodies == {"zip_csv", "zip_empty", "not_zip", "zip_bad_csv"}

relevant_columns ==
    {"FlightDate", "Airline", "Origin", "Dest", "DepDelayMinutes", "ArrDelayMinutes",
     "Cancelled", "Diverted"}

\* column names a downloaded CSV may have
CsvColumns == {"FlightDate", "Airline", "DepDelayMinutes", "Year"}

\* os.makedirs(raw_data_dir, exist_ok=True)
MakeDirs ==
    /\ pc = "start"
    /\ \/ pc' = "get" /\ UNCHANGED <<exc, exc_at>>
       \/ RaiseUncaught("makedirs", "OSError")
    /\ UNCHANGED <<attempts, response, zip_file, bts_df, bts_delays, satisfaction_csv>>
    /\ UNCHANGED dash_vars

\* response = requests.get(url)
RequestsGet ==
    /\ pc = "get"
    /\ attempts' = attempts + 1
    /\ \/ /\ \E st \in StatusCodes : \E b \in Bodies :
                response' = [status |-> st, body |-> b]
          /\ pc' = "status"
          /\ UNCHANGED <<exc, exc_at>>
       \/ /\ Raise("get", "ConnectionError")
          /\ UNCHANGED response
    /\ UNCHANGED <<zip_file, bts_df, bts_delays, satisfaction_csv>>
    /\ UNCHANGED dash_vars

\* response.raise_for_status()
RaiseForStatus ==
    /\ pc = "status"
    /\ IF response.status >= 400
       THEN Raise("status", "HTTPError")
       ELSE pc' = "write_zip" /\ UNCHANGED <<exc, exc_at>>
    /\ UNCHANGED <<attempts, response, zip_file, bts_df, bts_delays, satisfaction_csv>>
    /\ UNCHANGED dash_vars

\* with open(zip_file_path, 'wb') as f: f.write(response.content)
WriteZip ==
    /\ pc = "write_zip"
    /\ \/ /\ zip_file' = response.body
          /\ pc' = "open_zip"
          /\ UNCHANGED <<exc, exc_at>>
       \/ /\ Raise("write_zip", "OSError")
          /\ UNCHANGED zip_file
    /\ UNCHANGED <<attempts, response, bts_df, bts_delays, satisfaction_csv>>
    /\ UNCHANGED dash_vars

\* zipfile.ZipFile(zip_file_path, 'r')
OpenZip ==
    /\ pc = "open_zip"
    /\ IF zip_file = "not_zip"
       THEN Raise("open_zip", "BadZipFile")
       ELSE pc' = "namelist" /\ UNCHANGED <<exc, exc_at>>
    /\ UNCHANGED <<attempts, response, zip_file, bts_df, bts_delays, satisfaction_csv>>
    /\ UNCHANGED dash_vars

\* csv_file_name = zip_ref.namelist()[0]
NameList ==
    /\ pc = "namelist"
    /\ IF zip_file = "zip_empty"
       THEN Raise("namelist", "IndexError")
       ELSE pc' = "read_csv" /\ UNCHANGED <<exc, exc_at>>
    /\ UNCHANGED <<attempts, response, zip_file, bts_df, bts_delays, satisfaction_csv>>
    /\ UNCHANGED dash_vars

\* bts_df = pd.read_csv(csv_file, low_memory=False), then the relevant
\* columns that exist are kept
ReadCsv ==
    /\ pc = "read_csv"
    /\ IF zip_file = "zip_bad_csv"
       THEN Raise("read_csv", "ParserError") /\ UNCHANGED bts_df
       ELSE /\ \E header \in SUBSET CsvColumns :
                  bts_df' = { col \in relevant_columns : col \in header }
            /\ pc' = "to_csv"
            /\ UNCHANGED <<exc, exc_at>>
    /\ UNCHANGED <<attempts, response, zip_file, bts_delays, satisfaction_csv>>
    /\ UNCHANGED dash_vars

\* bts_df.to_csv(f"{raw_data_dir}/bts_delays.csv", index=False)
ToCsv ==
    /\ pc = "to_csv"
    /\ \/ /\ bts_delays' = "real"
          /\ pc' = "satisfaction"
          /\ UNCHANGED <<exc, exc_at>>
       \/ /\ Raise("to_csv", "OSError")
          /\ UNCHANGED bts_delays
    /\ UNCHANGED <<attempts, response, zip_file, bts_df, satisfaction_csv>>
    /\ UNCHANGED dash_vars

\* the except block: create_simulated_bts_data(raw_data_dir); its own write
\* is outside any try
create_simulated_bts_data ==
    /\ pc = "except"
    /\ \/ /\ bts_delays' = "simulated"
          /\ bts_df' = relevant_columns
          /\ pc' = "satisfaction"
          /\ UNCHANGED exc_at
       \/ /\ pc' = "crashed"
          /\ exc_at' = "fallback"
          /\ UNCHANGED <<bts_delays, bts_df>>
    /\ UNCHANGED <<exc, attempts, response, zip_file, satisfaction_csv>>
    /\ UNCHANGED dash_vars

\* the check for satisfaction.csv: a preview when it exists, a sample file
\* written when it does not
CheckSatisfaction ==
    /\ pc = "satisfaction"
    /\ \/ /\ pc' = "done"
          /\ satisfaction_csv' =
                 (IF satisfaction_csv = "absent" THEN "sample" ELSE satisfaction_csv)
          /\ UNCHANGED exc_at
       \/ /\ pc' = "crashed"
          /\ exc_at' = "satisfaction"
          /\ UNCHANGED satisfaction_csv
    /\ UNCHANGED <<exc, attempts, response, zip_file, bts_df, bts_delays>>
    /\ UNCHANGED dash_vars

\* python data_fetch.py, with or without files of an earlier run
InitFetch ==
    /\ phase = "read"
    /\ df = SampleRows
    /\ Blank
    /\ pc = "start"
    /\ exc = ""
    /\ exc_at = ""
    /\ attempts = 0
    /\ response = [status |-> 0, body |-> "none"]
    /\ zip_file \in {"absent", "zip_csv"}
    /\ bts_df = {}
    /\ bts_delays \in {"absent", "old"}
    /\ satisfaction_csv \in {"absent", "kaggle"}

NextFetch ==
    \/ MakeDirs
    \/ RequestsGet
    \/ RaiseForStatus
    \/ WriteZip
    \/ OpenZip
    \/ NameList
    \/ ReadCsv
    \/ ToCsv
    \/ create_simulated_bts_data
    \/ CheckSatisfaction

SpecFetch == InitFetch /\ [][NextFetch]_vars

-----------------------------------------------------------------------------
(* Properties *)

TwoLabels == {Satisfied, Dissatisfied}

\* the state shows what render computed from the current property values
Settled == phase = "loaded" /\ rendered /\ ~pending

RECURSIVE SumSeq(_)
SumSeq(q) == IF q = <<>> THEN 0 ELSE Head(q) + SumSeq(Tail(q))

\* the rows of df a Filter Selection admits, stated on the rows
Admitted(cy) ==
    { i \in 1..Len(df) :
        /\ df[i].Airline \in airlines_sel
        /\ (class_sel = {} \/ df[i].Class \in class_sel)
        /\ (travel_sel = {} \/ df[i].Travel \in travel_sel)
        /\ df[i].Year <= cy }

\* C1: after load every record's label is one of the two labels; it is
\* 'satisfied' exactly for the labels that contain 'satisf' (in any case) and
\* neither 'neutral' nor 'diss', and the negative label for every other
\* input, a null label included.
C1_TwoLabelsAfterLoad ==
    phase = "loaded" =>
        \A i \in 1..Len(df) :
            LET cell == df[i].satisfaction
                positive == /\ ~cell.isna
                            /\ Contains(Lower(cell.str), TokSatisf)
                            /\ ~Contains(Lower(cell.str), TokNeutral)
                            /\ ~Contains(Lower(cell.str), TokDiss)
            IN  /\ df[i].satisfaction_norm \in TwoLabels
                /\ df[i].satisfaction_norm = (IF positive THEN Satisfied ELSE Dissatisfied)

\* C2: the subset render computes holds exactly the records whose airline is
\* selected, whose class is selected or the class selection is empty, whose
\* travel type is selected or that selection is empty, and whose year is at
\* most the cursor year, each once and in table order; an empty class or
\* travel selection admits at least as many records as any other selection
\* of that dropdown; an empty airline selection gives the empty subset.
C2_FilterExact ==
    Settled =>
        /\ Range(d) = Admitted(current_year)
        /\ \A j, k \in 1..Len(d) : j < k => d[j] < d[k]
        /\ \A cs \in SUBSET ClassOptions(df) :
               Len(Filtered(airlines_sel, cs, travel_sel, current_year))
                   <= Len(Filtered(airlines_sel, {}, travel_sel, current_year))
        /\ \A ts \in SUBSET TravelOptions(df) :
               Len(Filtered(airlines_sel, class_sel, ts, current_year))
                   <= Len(Filtered(airlines_sel, class_sel, {}, current_year))
        /\ (airlines_sel = {} => d = <<>>)

\* an empty class selection, a travel selection that excludes a record, and a
\* record that passes
C2_Witness ==
    /\ Settled
    /\ class_sel = {}
    /\ travel_sel # {}
    /\ d # <<>>
    /\ \E i \in 1..Len(df) :
           df[i].Airline \in airlines_sel /\ df[i].Year <= current_year /\ i \notin Range(d)

\* C3: the cursor year render uses, and the slider value, are within
\* [year_min, year_max] in every state of the dashboard.
C3_CursorInRange ==
    /\ (phase = "loaded" => slider_year \in year_min..year_max)
    /\ (phase = "loaded" /\ rendered => current_year \in year_min..year_max)

\* playing, past the first wrap, at the last year of the range
C3_Witness ==
    Settled /\ is_playing /\ n > YearSpan(year_min, year_max) - 1 /\ current_year = year_max
        /\ year_min < year_max

\* C4: while playing, the displayed year is year_min + (n mod span) with
\* span = year_max - year_min + 1; one more tick moves it one year forward
\* and from year_max back to year_min; with range [2006, 2025] and n = 20 it
\* is 2006.
C4_PlayingYearSweeps ==
    /\ (Settled /\ is_playing) =>
           /\ current_year = year_min + (n % (year_max - year_min + 1))
           /\ slider_year = current_year
    /\ phase = "loaded" =>
           \A k \in 0..MaxTicks :
               PlayYear(year_min, year_max, k + 1) =
                   (IF PlayYear(year_min, year_max, k) = year_max
                    THEN year_min
                    ELSE PlayYear(year_min, year_max, k) + 1)
    /\ PlayYear(2006, 2025, 20) = 2006

\* playing, the tick count equal to the span: the sweep is back at year_min
C4_Witness ==
    /\ Settled
    /\ is_playing
    /\ year_min < year_max
    /\ n = YearSpan(year_min, year_max)
    /\ current_year = year_min

C6_AirlineCountsSumToTotal ==
    Settled =>
        SumSeq([k \in 1..Len(grp) |->
                   grp[k].counts[Satisfied] + grp[k].counts[Dissatisfied]])
            = total_records

\* C7: for fixed selections the filtered subset at cursor year Y is no larger
\* than at Y + 1, for every Y; in particular the subset render shows is no
\* larger than the one a cursor one year later gives.
C7_CumulativeMonotonic ==
    Settled =>
        /\ \A Y \in (year_min - 1)..year_max :
               Len(Filtered(airlines_sel, class_sel, travel_sel, Y))
                   <= Len(Filtered(airlines_sel, class_sel, travel_sel, Y + 1))
        /\ total_records = Len(Filtered(airlines_sel, class_sel, travel_sel, current_year))
        /\ total_records
               <= Len(Filtered(airlines_sel, class_sel, travel_sel, current_year + 1))
        /\ \A i \in Range(d) :
               i \in Range(Filtered(airlines_sel, class_sel, travel_sel, current_year + 1))

\* a non-empty subset that grows when the cursor advances by one year
C7_Witness ==
    /\ Settled
    /\ total_records > 0
    /\ total_records
           < Len(Filtered(airlines_sel, class_sel, travel_sel, current_year + 1))

\* C8: the satisfied percentage sat / max(1, sat + diss) * 100 is within
\* [0, 100]; its divisor is never zero; it is 0 when the filtered subset is
\* empty.
C8_PercentageInRange ==
    Settled =>
        /\ sat_pct.den >= 1
        /\ sat_pct.num * Max(1, sat + diss) = 100 * sat * sat_pct.den
        /\ 0 <= sat_pct.num
        /\ sat_pct.num <= 100 * sat_pct.den
        /\ (total_records = 0 => sat_pct.num = 0)

\* the empty subset: 0 %, divisor 1
C8_Witness ==
    Settled /\ total_records = 0 /\ d = <<>> /\ sat_pct.num = 0 /\ sat_pct.den = 1

\* the count of label l in the per-year table's row of year y (0 without one)
TrendCount(y, l) ==
    IF y \in DOMAIN year_trend THEN Get(year_trend[y], l, 0) ELSE 0

\* C9: the current-year split counts the records of the filtered subset whose
\* year is the cursor year exactly, while the total, the per-airline and the
\* per-year tables count all records with year <= cursor year; the split's
\* satisfied and dissatisfied counts equal the per-year table's counts for
\* the cursor year and do not exceed the cumulative counts.
C9_SplitIsExactYear ==
    Settled =>
        /\ Range(d_year) = { i \in Range(d) : df[i].Year = current_year }
        /\ Len(d_year) = Cardinality(Range(d_year))
        /\ total_records = Cardinality({ i \in Admitted(current_year) : TRUE })
        /\ \A l \in TwoLabels :
               /\ Get(pie_counts, l, 0)
                      = Cardinality({ i \in Range(d) :
                            df[i].Year = current_year /\ df[i].satisfaction_norm = l })
               /\ Get(pie_counts, l, 0) = TrendCount(current_year, l)
               /\ SumSeq([k \in 1..Len(grp) |-> grp[k].counts[l]])
                      = Cardinality({ i \in Admitted(current_year) :
                                        df[i].satisfaction_norm = l })
        /\ Get(pie_counts, Satisfied, 0) <= sat
        /\ Get(pie_counts, Dissatisfied, 0) <= diss

\* records of the cursor year and earlier records in the same subset
C9_Witness ==
    /\ Settled
    /\ d_year # <<>>
    /\ Len(d_year) < Len(d)
    /\ Get(pie_counts, Satisfied, 0) > 0
    /\ Get(pie_counts, Satisfied, 0) < sat

\* C10 as stated: one entry per year of the filtered subset, each with a
\* satisfied and a dissatisfied count; one placeholder entry for the cursor
\* year with zero counts when the subset is empty.
C10_TrendHasBothCounts ==
    Settled =>
        /\ DOMAIN year_trend =
               (IF d = <<>> THEN {current_year} ELSE { df[i].Year : i \in Range(d) })
        /\ \A y \in DOMAIN year_trend :
               /\ TwoLabels \subseteq DOMAIN year_trend[y]
               /\ \A l \in TwoLabels :
                      year_trend[y][l] =
                          Cardinality({ i \in Range(d) :
                                          df[i].Year = y /\ df[i].satisfaction_norm = l })

\* C10 as amended: one entry per year of the filtered subset, each with one
\* count for every label that occurs in the subset (zero when the label has
\* no rows in that year) and none for a label that occurs nowhere in it; one
\* placeholder entry for the cursor year with zero for both labels when the
\* subset is empty.
C10_TrendCountsLabelsPresent ==
    Settled =>
        IF d = <<>>
        THEN /\ DOMAIN year_trend = {current_year}
             /\ DOMAIN year_trend[current_year] = TwoLabels
             /\ \A l \in TwoLabels : year_trend[current_year][l] = 0
        ELSE /\ DOMAIN year_trend = { df[i].Year : i \in Range(d) }
             /\ \A y \in DOMAIN year_trend :
                    /\ DOMAIN year_trend[y] = { df[i].satisfaction_norm : i \in Range(d) }
                    /\ \A l \in DOMAIN year_trend[y] :
                           year_trend[y][l] =
                               Cardinality({ i \in Range(d) :
                                   df[i].Year = y /\ df[i].satisfaction_norm = l })

\* two years in the subset, one of them without rows of a label the other has
C10_Witness ==
    /\ Settled
    /\ d # <<>>
    /\ Cardinality(DOMAIN year_trend) >= 2
    /\ \E y \in DOMAIN year_trend : \E l \in DOMAIN year_trend[y] : year_trend[y][l] = 0

\* the three dropdown selections
filters == <<airlines_sel, class_sel, travel_sel>>

\* C11: no interaction changes the record set once it is loaded; render
\* leaves the records, the tick count, the filter selections and the
\* play/pause state unchanged; toggle_play flips the play/pause state and
\* leaves the records, the tick count, the slider, the filter selections and
\* everything render displays unchanged; only toggle_play changes the
\* play/pause state, only a tick the tick count; two toggles in a row give
\* back the play/pause state they started from.
C11_InteractionsWriteOwnState ==
    /\ [][ /\ (phase = "loaded" => df' = df)
           /\ Render =>
                  /\ is_playing' = is_playing
                  /\ n' = n
                  /\ filters' = filters
           /\ toggle_play =>
                  /\ is_playing' = ~is_playing
                  /\ n' = n
                  /\ slider_year' = slider_year
                  /\ filters' = filters
                  /\ tick_disabled' = tick_disabled
                  /\ outputs' = outputs
           /\ (is_playing' # is_playing => toggle_play)
           /\ (n' # n => Tick)
         ]_vars
    /\ [](\A p \in BOOLEAN : toggle_play_return(toggle_play_return(p)) = p)

\* playing again after a pause that render has shown: the second toggle has
\* acted and render has not yet re-enabled the interval
C11_Witness ==
    /\ phase = "loaded"
    /\ rendered
    /\ is_playing
    /\ tick_disabled
    /\ pending
    /\ d # <<>>

\* C13: the feedback through the year slider ends: a render called again on
\* the slider value it has just written, with nothing else changed, returns
\* the same slider value and the same displayed year and triggers no
\* further call, so after one tick or user event render runs at most twice;
\* render's cursor is a fixed point of itself for every tick count, slider
\* year and play state.
C13_SliderFeedbackSettles ==
    /\ [](phase = "loaded" => (chain <= 2 /\ (chain = 2 => ~pending)))
    /\ [][ (chain >= 1 /\ Render) =>
               /\ slider_year' = slider_year
               /\ current_year' = current_year
               /\ ~pending'
         ]_vars
    /\ [](LET lo == year_min
               hi == year_max
           IN  \A p \in BOOLEAN : \A k \in 0..MaxTicks : \A y \in lo..hi :
                   CursorYear(lo, hi, k, CursorYear(lo, hi, k, y, p), p)
                       = CursorYear(lo, hi, k, y, p))

\* playing: render has changed the slider, has been called once more and
\* has settled
C13_Witness ==
    /\ Settled
    /\ is_playing
    /\ chain = 2
    /\ n > 0

\* C14: while playing, the displayed year and the slider value render writes
\* are year_min + (n mod span) whatever the slider input is, so a year
\* selected while playing or while paused is overwritten by the next render
\* in the playing state; the tick count does not move while the state is
\* paused and the interval disabled, so a resume continues from it.
C14_PlayingIgnoresSlider ==
    /\ [][ /\ ((is_playing /\ Render) =>
                   (/\ current_year' = year_min + (n % (year_max - year_min + 1))
                    /\ slider_year' = current_year'))
            /\ ((~is_playing /\ tick_disabled) => n' = n)
         ]_vars
    /\ [](LET lo == year_min
               hi == year_max
           IN  \A k \in 0..MaxTicks : \A y1, y2 \in lo..hi :
                   CursorYear(lo, hi, k, y1, TRUE) = CursorYear(lo, hi, k, y2, TRUE))

\* playing after ticks, showing the year of the tick count and not the year
\* last selected on the slider
C14_Witness ==
    /\ Settled
    /\ is_playing
    /\ n > 0
    /\ last_selected # 0
    /\ current_year # last_selected
    /\ slider_year = current_year

\* C12: no failure of the download, of the write of the archive or of its
\* parsing ends fetch_and_save_data: each is caught and leads to the
\* fallback, which writes simulated delay data; once the delay step is past,
\* bts_delays.csv holds the downloaded data when nothing failed and the
\* simulated data when something did; requests.get is called once, never
\* again after a failure.
C12_FetchFailureFallsBack ==
    /\ attempts <= 1
    /\ (pc \in {"status", "write_zip", "open_zip", "namelist", "read_csv", "to_csv",
                "except", "satisfaction", "done"} => attempts = 1)
    /\ (pc = "except" => exc \in ExceptionClasses /\ exc_at \in TrySteps)
    /\ (pc = "crashed" => exc_at \notin TrySteps)
    /\ (pc \in {"satisfaction", "done"} =>
            bts_delays = (IF exc = "" THEN "real" ELSE "simulated"))
    /\ (pc = "done" => bts_delays \in {"real", "simulated"})

\* the run is complete after the archive turned out to be no archive, and
\* the simulated data is in place of a file that did not exist
C12_Witness ==
    /\ pc = "done"
    /\ exc = "BadZipFile"
    /\ exc_at = "open_zip"
    /\ attempts = 1
    /\ bts_delays = "simulated"

=============================================================================
